---- MODULE Spec2Model ----
(***************************************************************************)
(* Model of the silica CHIP-8 assembler: the semantic validator            *)
(* (assembler/semantics.rs) and the two-pass code generator                *)
(* (assembler/codegenerator.rs).                                           *)
(*                                                                         *)
(* A Rust panic (unwrap on Err, panic!, index out of bounds) aborts        *)
(* generate; it is modelled by the field `panic` holding the message and   *)
(* by the phase "panicked".  The opcode buffer vec![0; 4096] is kept as    *)
(* the function of the cells written so far; every other cell reads 0.     *)
(* u32 values are drawn below 2^31.                                        *)
(***************************************************************************)
EXTENDS Integers, Naturals, Sequences, FiniteSets, TLC

VARIABLES
    exprs,             \* the expressions generate has taken from its argument so far
    phase,             \* position in generate: "pass1", "pass2", "returned", "panicked"
    address_counter,   \* CodeGenerator.address_counter
    labels,            \* CodeGenerator.labels
    opcodes,           \* CodeGenerator.opcodes (written cells)
    incomplete_queue,  \* CodeGenerator.incomplete_queue
    largest_address,   \* CodeGenerator.largest_address
    panic,             \* message of the panic that aborted generate, "" if none
    output,            \* the Vec<u8> generate returned
    tokens,            \* the Vec<Token> given to parser::parse
    parsed,            \* what parser::parse made of tokens
    source,            \* the bytes given to lexer::tokenize
    lexed              \* what lexer::tokenize made of source

vars == <<exprs, phase, address_counter, labels, opcodes, incomplete_queue,
          largest_address, panic, output, tokens, parsed, source, lexed>>

----------------------------------------------------------------------------
(* Bounds of the model *)

MaxExprs == 4

MaxEncExprs == 2

MaxChunks == 3

----------------------------------------------------------------------------
(* Program constants *)

BufferSize == 4096

LoadAddress == 512

----------------------------------------------------------------------------
(* lexer.rs: Token *)

Tok(k, n, v) == [kind |-> k, name |-> n, value |-> v]

Directive(n) == Tok("Directive", n, 0)

Label(n) == Tok("Label", n, 0)

Instruction(n) == Tok("Instruction", n, 0)

Register(n) == Tok("Register", n, 0)

NumericLiteral(v) == Tok("NumericLiteral", "", v)

LabelOperand(n) == Tok("LabelOperand", n, 0)

Comma == Tok("Comma", "", 0)

is_register(t) == t.kind = "Register"

GeneralPurposeNames ==
    {"V0", "V1", "V2", "V3", "V4", "V5", "V6", "V7",
     "V8", "V9", "VA", "VB", "VC", "VD", "VE", "VF"}

OtherRegisterNames == {"DT", "ST", "F", "[I]", "I", "B", "K"}

RegisterNames == GeneralPurposeNames \cup OtherRegisterNames

\* reg.contains("V"): of the register names only V0..VF contain a 'V'
is_general_purpose_register(t) ==
    t.kind = "Register" /\ t.name \in GeneralPurposeNames

is_numeric_literal(t) == t.kind = "NumericLiteral"

is_label_operand(t) == t.kind = "LabelOperand"

----------------------------------------------------------------------------
(* Bit operations on unsigned integers *)

RECURSIVE BitOr(_, _)
BitOr(a, b) ==
    IF a = 0 THEN b
    ELSE IF b = 0 THEN a
    ELSE (IF a % 2 = 1 \/ b % 2 = 1 THEN 1 ELSE 0) + 2 * BitOr(a \div 2, b \div 2)

\* `x as u8`
AsU8(x) == x % 256

\* `x << 4` on a u8
Shl4(x) == (x * 16) % 256

----------------------------------------------------------------------------
(* parser.rs *)

\* nom's IResult: Done(remaining input, output), Error, Incomplete
Done(rest, out) == [r |-> "Done", rest |-> rest, out |-> out]

Error(i) == [r |-> "Error", rest |-> i, out |-> <<>>]

Incomplete(i) == [r |-> "Incomplete", rest |-> i, out |-> <<>>]

\* tag_token!($i, $tag) for a pattern matching the tokens of the kinds given
tag_token(i, kinds) ==
    IF Len(i) > 0
    THEN IF i[1].kind \in kinds THEN Done(Tail(i), i[1]) ELSE Error(i)
    ELSE Incomplete(i)

\* complete!: Incomplete becomes Error (the branches of alt_complete!)
complete(res) == IF res.r = "Incomplete" THEN Error(res.rest) ELSE res

\* opt_complete!($i, ...): Some(o) is <<o>>, None is <<>> with the input untouched
opt_complete(i, res) ==
    IF res.r = "Done" THEN Done(res.rest, <<res.out>>) ELSE Done(i, <<>>)

parse_label(i) ==
    LET label == tag_token(i, {"Label"})
    IN  IF label.r # "Done" THEN label
        ELSE Done(label.rest, <<label.out>>)

parse_directive(i) ==
    LET directive == tag_token(i, {"Directive"})
    IN  IF directive.r # "Done" THEN directive
        ELSE LET num == tag_token(directive.rest, {"NumericLiteral"})
             IN  IF num.r # "Done" THEN num
                 ELSE Done(num.rest, <<directive.out, num.out>>)

\* faulty variant: the comma is kept in the expression
parse_instructions_keeping_comma(i) ==
    LET instr == tag_token(i, {"Instruction"})
    IN  IF instr.r # "Done" THEN instr
        ELSE LET operand1 == opt_complete(instr.rest,
                    complete(tag_token(instr.rest,
                        {"Register", "NumericLiteral", "LabelOperand"})))
                 comma == opt_complete(operand1.rest,
                    tag_token(operand1.rest, {"Comma"}))
                 operand2 == opt_complete(comma.rest,
                    complete(tag_token(comma.rest, {"Register", "NumericLiteral"})))
             IN  Done(operand2.rest,
                      <<instr.out>> \o operand1.out \o comma.out \o operand2.out)

parse_instructions(i) ==
    LET instr == tag_token(i, {"Instruction"})
    IN  IF instr.r # "Done" THEN instr
        ELSE LET operand1 == opt_complete(instr.rest,
                    complete(tag_token(instr.rest,
                        {"Register", "NumericLiteral", "LabelOperand"})))
                 comma == opt_complete(operand1.rest,
                    tag_token(operand1.rest, {"Comma"}))
                 operand2 == opt_complete(comma.rest,
                    complete(tag_token(comma.rest, {"Register", "NumericLiteral"})))
             IN  Done(operand2.rest, <<instr.out>> \o operand1.out \o operand2.out)

\* alt_complete!(parse_directive | parse_label | parse_instructions)
alt_expression(i) ==
    IF complete(parse_directive(i)).r = "Done" THEN parse_directive(i)
    ELSE IF complete(parse_label(i)).r = "Done" THEN parse_label(i)
    ELSE complete(parse_instructions(i))

\* many0!: the expressions up to the end of the input or to the first token
\* at which no alternative matches
RECURSIVE many0(_, _)
many0(input, res) ==
    IF Len(input) = 0 THEN Done(input, res)
    ELSE LET o == alt_expression(input)
         IN  IF o.r = "Error" THEN Done(input, res)
             ELSE IF o.r = "Incomplete" THEN Incomplete(input)
             ELSE IF o.rest = input THEN Error(input)
             ELSE many0(o.rest, Append(res, o.out))

parse_expressions(i) == many0(i, <<>>)

\* parse: Ok(exprs) on Done, whatever input remains; rest is that remainder,
\* which parse drops
parse(toks) ==
    LET result == parse_expressions(toks)
    IN  IF result.r = "Done"
        THEN [status |-> "Ok", exprs |-> result.out, rest |-> result.rest]
        ELSE [status |-> "Err", exprs |-> <<>>, rest |-> result.rest]

----------------------------------------------------------------------------
(* semantics.rs *)

RegNumOrRegReg == {"SE", "SNE", "LD", "ADD"}

RegRegOnly == {"OR", "AND", "XOR", "SUB", "SUBN", "SHL", "SHR"}

\* faulty variant: ADD is checked as the register-register mnemonics are
check_instruction_add_registers(instr, expr) ==
    CASE instr \in {"CLS", "RET"} ->
            IF Len(expr) = 1 THEN "Ok" ELSE "Err"
      [] instr \in {"JP", "JR", "CALL"} ->
            IF Len(expr) = 2
            THEN IF is_numeric_literal(expr[2]) \/ is_label_operand(expr[2])
                 THEN "Ok" ELSE "Err"
            ELSE "Err"
      [] instr \in RegNumOrRegReg \ {"ADD"} ->
            IF Len(expr) = 3
            THEN IF (is_register(expr[2]) /\ is_numeric_literal(expr[3]))
                    \/ (is_register(expr[2]) /\ is_register(expr[3]))
                 THEN "Ok" ELSE "Err"
            ELSE "Err"
      [] instr \in RegRegOnly \cup {"ADD"} ->
            IF Len(expr) = 3
            THEN IF is_register(expr[2]) /\ is_register(expr[3])
                 THEN "Ok" ELSE "Err"
            ELSE "Err"
      [] instr = "RND" ->
            IF Len(expr) = 3
            THEN IF is_register(expr[2]) /\ is_numeric_literal(expr[3])
                 THEN "Ok" ELSE "Err"
            ELSE "Err"
      [] instr = "DRW" ->
            IF Len(expr) = 4
            THEN IF is_register(expr[2]) /\ is_register(expr[3])
                    /\ is_numeric_literal(expr[4])
                 THEN "Ok" ELSE "Err"
            ELSE "Err"
      [] instr \in {"SKP", "SKNP"} ->
            IF Len(expr) = 2
            THEN IF is_register(expr[2]) THEN "Ok" ELSE "Err"
            ELSE "Err"
      [] OTHER -> "Ok"


check_instruction_semantics(instr, expr) ==
    CASE instr \in {"CLS", "RET"} ->
            IF Len(expr) = 1 THEN "Ok" ELSE "Err"
      [] instr \in {"JP", "JR", "CALL"} ->
            IF Len(expr) = 2
            THEN IF is_numeric_literal(expr[2]) \/ is_label_operand(expr[2])
                 THEN "Ok" ELSE "Err"
            ELSE "Err"
      [] instr \in RegNumOrRegReg ->
            IF Len(expr) = 3
            THEN IF (is_register(expr[2]) /\ is_numeric_literal(expr[3]))
                    \/ (is_register(expr[2]) /\ is_register(expr[3]))
                 THEN "Ok" ELSE "Err"
            ELSE "Err"
      [] instr \in RegRegOnly ->
            IF Len(expr) = 3
            THEN IF is_register(expr[2]) /\ is_register(expr[3])
                 THEN "Ok" ELSE "Err"
            ELSE "Err"
      [] instr = "RND" ->
            IF Len(expr) = 3
            THEN IF is_register(expr[2]) /\ is_numeric_literal(expr[3])
                 THEN "Ok" ELSE "Err"
            ELSE "Err"
      [] instr = "DRW" ->
            IF Len(expr) = 4
            THEN IF is_register(expr[2]) /\ is_register(expr[3])
                    /\ is_numeric_literal(expr[4])
                 THEN "Ok" ELSE "Err"
            ELSE "Err"
      [] instr \in {"SKP", "SKNP"} ->
            IF Len(expr) = 2
            THEN IF is_register(expr[2]) THEN "Ok" ELSE "Err"
            ELSE "Err"
      [] OTHER -> "Ok"

check(expr) ==
    CASE expr[1].kind = "Label" -> "Ok"
      [] expr[1].kind = "Directive" ->
            IF Len(expr) # 2 THEN "Err"
            ELSE IF is_numeric_literal(expr[2]) THEN "Ok" ELSE "Err"
      [] expr[1].kind = "Instruction" ->
            check_instruction_semantics(expr[1].name, expr)
      [] OTHER -> "Err"

----------------------------------------------------------------------------
(* codegenerator.rs: CodeGenerator *)

\* IncompleteInstruction::new
IncompleteInstruction(address, expr) == [address |-> address, expr |-> expr]

\* CodeGenerator::new
new ==
    [address_counter |-> 0,
     labels |-> <<>>,
     opcodes |-> <<>>,
     incomplete_queue |-> <<>>,
     largest_address |-> 0,
     panic |-> ""]

\* a panic aborts generate; the state it leaves behind is not observed again
Panic(self, msg) == [self EXCEPT !.panic = msg]

\* self.opcodes[a]
ReadByte(mem, a) == IF a \in DOMAIN mem THEN mem[a] ELSE 0

\* self.opcodes[a] = b, for a < 4096
WriteByte(mem, a, b) ==
    [x \in (DOMAIN mem) \cup {a} |-> IF x = a THEN b ELSE mem[x]]

\* faulty variant: the counter moves and largest_address is left behind
increment_without_mark(self, i) ==
    [self EXCEPT !.address_counter = self.address_counter + i]

increment_address_counter(self, i) ==
    LET ac == self.address_counter + i
    IN  [self EXCEPT !.address_counter = ac,
                     !.largest_address = IF ac > @ THEN ac ELSE @]

append_opcode(self, msb, lsb) ==
    IF self.address_counter >= BufferSize
    THEN Panic(self, "index out of bounds: the len is 4096")
    ELSE IF self.address_counter + 1 >= BufferSize
    THEN Panic([self EXCEPT !.opcodes = WriteByte(@, self.address_counter, msb)],
               "index out of bounds: the len is 4096")
    ELSE increment_address_counter(
            [self EXCEPT !.opcodes =
                WriteByte(WriteByte(@, self.address_counter, msb),
                          self.address_counter + 1, lsb)],
            2)

\* name[1..]: the register name without its first character
NameTail(name) ==
    CASE name = "V0" -> "0" [] name = "V1" -> "1" [] name = "V2" -> "2"
      [] name = "V3" -> "3" [] name = "V4" -> "4" [] name = "V5" -> "5"
      [] name = "V6" -> "6" [] name = "V7" -> "7" [] name = "V8" -> "8"
      [] name = "V9" -> "9" [] name = "VA" -> "A" [] name = "VB" -> "B"
      [] name = "VC" -> "C" [] name = "VD" -> "D" [] name = "VE" -> "E"
      [] name = "VF" -> "F" [] name = "DT" -> "T" [] name = "ST" -> "T"
      [] name = "[I]" -> "I]"
      [] OTHER -> ""

\* str::parse::<u8> on the strings NameTail yields: Ok(n) is n, Err is -1
ParseU8(s) ==
    CASE s = "0" -> 0 [] s = "1" -> 1 [] s = "2" -> 2 [] s = "3" -> 3
      [] s = "4" -> 4 [] s = "5" -> 5 [] s = "6" -> 6 [] s = "7" -> 7
      [] s = "8" -> 8 [] s = "9" -> 9
      [] OTHER -> -1

\* the parse result before unwrap(): -1 stands for Err
register_name_to_u8(name) == ParseU8(NameTail(name))

\* unwrap() of register_name_to_u8 for each register in regs, then body
WithRegs(self, regs, body) ==
    IF \E i \in DOMAIN regs : register_name_to_u8(regs[i]) < 0
    THEN Panic(self, "unwrap on Err: ParseIntError")
    ELSE body

\* faulty variant: the deferred instruction's two-byte slot is not reserved
queue_without_reserving(self, expr) ==
    [self EXCEPT !.incomplete_queue =
        Append(@, IncompleteInstruction(self.address_counter, expr))]

queue_incomplete_instruction(self, expr) ==
    increment_address_counter(
        [self EXCEPT !.incomplete_queue =
            Append(@, IncompleteInstruction(self.address_counter, expr))],
        2)


\* faulty variant: the opcode of a label operand goes without bits 11..8 of the address
process_jump_without_high_bits(self, first, expr) ==
    IF expr[2].kind = "NumericLiteral"
    THEN LET nnn == expr[2].value
         IN  append_opcode(self, BitOr(first, (nnn \div 256) % 16), nnn % 256)
    ELSE IF expr[2].kind = "LabelOperand"
    THEN IF expr[2].name \in DOMAIN self.labels
         THEN append_opcode(self, first, self.labels[expr[2].name] % 256)
         ELSE queue_incomplete_instruction(self, expr)
    ELSE self

process_jump_instruction(self, first, expr) ==
    IF expr[2].kind = "NumericLiteral"
    THEN LET nnn == expr[2].value
         IN  append_opcode(self, BitOr(first, (nnn \div 256) % 16), nnn % 256)
    ELSE IF expr[2].kind = "LabelOperand"
    THEN IF expr[2].name \in DOMAIN self.labels
         THEN LET address == self.labels[expr[2].name]
              IN  append_opcode(self, BitOr(first, (address \div 256) % 16),
                                address % 256)
         ELSE queue_incomplete_instruction(self, expr)
    ELSE self

process_se_instruction(self, first, second, expr) ==
    IF expr[2].kind = "Register"
    THEN IF register_name_to_u8(expr[2].name) < 0
         THEN Panic(self, "unwrap on Err: ParseIntError")
         ELSE LET reg_num == register_name_to_u8(expr[2].name)
              IN  IF expr[3].kind = "NumericLiteral"
                  THEN append_opcode(self, BitOr(first, reg_num), AsU8(expr[3].value))
                  ELSE IF Len(expr) < 4
                  THEN Panic(self, "index out of bounds: the len is 3")
                  ELSE IF expr[4].kind = "Register"
                  THEN WithRegs(self, <<expr[4].name>>,
                          append_opcode(self, BitOr(second, reg_num),
                                        Shl4(register_name_to_u8(expr[4].name))))
                  ELSE self
    ELSE self

process_logical_instruction(self, first, expr) ==
    IF expr[2].kind = "Register"
    THEN IF register_name_to_u8(expr[2].name) < 0
         THEN Panic(self, "unwrap on Err: ParseIntError")
         ELSE IF expr[3].kind = "Register"
         THEN WithRegs(self, <<expr[3].name>>,
                 append_opcode(self,
                               BitOr(128, register_name_to_u8(expr[2].name)),
                               BitOr(Shl4(register_name_to_u8(expr[3].name)), first)))
         ELSE self
    ELSE self

process_add_instruction(self, expr) ==
    IF is_general_purpose_register(expr[2])
    THEN IF register_name_to_u8(expr[2].name) < 0
         THEN Panic(self, "unwrap on Err: ParseIntError")
         ELSE LET reg1_num == register_name_to_u8(expr[2].name)
              IN  IF expr[3].kind = "Register"
                  THEN WithRegs(self, <<expr[3].name>>,
                          append_opcode(self, BitOr(128, reg1_num),
                              BitOr(Shl4(register_name_to_u8(expr[3].name)), 4)))
                  ELSE IF expr[3].kind = "NumericLiteral"
                  THEN append_opcode(self, BitOr(112, reg1_num), AsU8(expr[3].value))
                  ELSE self
    ELSE IF expr[3].kind = "Register"
         THEN WithRegs(self, <<expr[3].name>>,
                 append_opcode(self, BitOr(240, register_name_to_u8(expr[3].name)), 30))
         ELSE self

process_sub_instruction(self, expr, last) ==
    IF expr[2].kind = "Register" /\ expr[3].kind = "Register"
    THEN WithRegs(self, <<expr[2].name, expr[3].name>>,
            append_opcode(self,
                          BitOr(128, register_name_to_u8(expr[2].name)),
                          BitOr(last, Shl4(register_name_to_u8(expr[3].name)))))
    ELSE self

process_skip_instruction(self, expr, last) ==
    IF expr[2].kind = "Register"
    THEN WithRegs(self, <<expr[2].name>>,
            append_opcode(self, BitOr(224, register_name_to_u8(expr[2].name)), last))
    ELSE self

process_rnd_instruction(self, expr) ==
    IF expr[2].kind = "Register" /\ expr[3].kind = "NumericLiteral"
    THEN WithRegs(self, <<expr[2].name>>,
            append_opcode(self, BitOr(192, register_name_to_u8(expr[2].name)),
                          AsU8(expr[3].value)))
    ELSE self

process_draw_instruction(self, expr) ==
    IF expr[2].kind = "Register" /\ expr[3].kind = "Register"
       /\ expr[4].kind = "NumericLiteral"
    THEN WithRegs(self, <<expr[2].name, expr[3].name>>,
            append_opcode(self,
                          BitOr(208, register_name_to_u8(expr[2].name)),
                          BitOr(Shl4(register_name_to_u8(expr[3].name)),
                                AsU8(expr[4].value))))
    ELSE self

process_load_instruction(self, expr) ==
    IF expr[2].kind # "Register" THEN self
    ELSE IF is_general_purpose_register(expr[2])
    THEN IF register_name_to_u8(expr[2].name) < 0
         THEN Panic(self, "unwrap on Err: ParseIntError")
         ELSE LET reg1_num == register_name_to_u8(expr[2].name)
              IN  IF expr[3].kind = "NumericLiteral"
                  THEN append_opcode(self, BitOr(96, reg1_num), AsU8(expr[3].value))
                  ELSE IF expr[3].kind = "Register"
                  THEN IF is_general_purpose_register(expr[3])
                       THEN WithRegs(self, <<expr[3].name>>,
                               append_opcode(self, BitOr(128, reg1_num),
                                   Shl4(register_name_to_u8(expr[3].name))))
                       ELSE CASE expr[3].name = "DT" ->
                                     append_opcode(self, BitOr(240, reg1_num), 7)
                              [] expr[3].name = "K" ->
                                     append_opcode(self, BitOr(240, reg1_num), 10)
                              [] expr[3].name = "[I]" ->
                                     append_opcode(self, BitOr(240, reg1_num), 101)
                              [] OTHER -> Panic(self, "Invalid operand")
                  ELSE self
    ELSE IF expr[3].kind = "Register"
         THEN WithRegs(self, <<expr[3].name>>,
                 LET reg2_num == register_name_to_u8(expr[3].name)
                 IN  CASE expr[2].name = "DT" ->
                               append_opcode(self, BitOr(240, reg2_num), 21)
                        [] expr[2].name = "ST" ->
                               append_opcode(self, BitOr(240, reg2_num), 24)
                        [] expr[2].name = "F" ->
                               append_opcode(self, BitOr(240, reg2_num), 41)
                        [] expr[2].name = "B" ->
                               append_opcode(self, BitOr(240, reg2_num), 51)
                        [] expr[2].name = "[I]" ->
                               append_opcode(self, BitOr(240, reg2_num), 85)
                        [] OTHER -> Panic(self, "Invalid operand for instruction LD"))
         ELSE IF expr[3].kind = "NumericLiteral"
         THEN IF expr[2].name = "I"
              THEN append_opcode(self,
                                 BitOr(160, AsU8(expr[3].value \div 256)),
                                 AsU8(expr[3].value % 256))
              ELSE Panic(self, "Invalid operand for instruction LD")
         ELSE IF expr[3].kind = "LabelOperand"
         THEN IF expr[2].name = "I"
              THEN IF expr[3].name \in DOMAIN self.labels
                   THEN LET address == self.labels[expr[3].name]
                        IN  append_opcode(self,
                                          BitOr(160, AsU8(address \div 256)),
                                          AsU8(address % 256))
                   ELSE queue_incomplete_instruction(self, expr)
              ELSE Panic(self, "Invalid operand for instruction LD")
         ELSE self

process_instruction(self, expr) ==
    LET instr == expr[1].name
    IN  CASE instr = "CLS" -> append_opcode(self, 0, 224)
          [] instr = "RET" -> append_opcode(self, 0, 238)
          [] instr = "JP" -> process_jump_instruction(self, 16, expr)
          [] instr = "JR" -> process_jump_instruction(self, 176, expr)
          [] instr = "CALL" -> process_jump_instruction(self, 32, expr)
          [] instr = "SE" -> process_se_instruction(self, 48, 80, expr)
          [] instr = "SNE" -> process_se_instruction(self, 64, 144, expr)
          [] instr = "OR" -> process_logical_instruction(self, 1, expr)
          [] instr = "AND" -> process_logical_instruction(self, 2, expr)
          [] instr = "XOR" -> process_logical_instruction(self, 3, expr)
          [] instr = "ADD" -> process_add_instruction(self, expr)
          [] instr = "SUB" -> process_sub_instruction(self, expr, 5)
          [] instr = "SHR" -> process_sub_instruction(self, expr, 6)
          [] instr = "SUBN" -> process_sub_instruction(self, expr, 7)
          [] instr = "SHL" -> process_sub_instruction(self, expr, 14)
          [] instr = "SKP" -> process_skip_instruction(self, expr, 158)
          [] instr = "SKNP" -> process_skip_instruction(self, expr, 161)
          [] instr = "RND" -> process_rnd_instruction(self, expr)
          [] instr = "DRW" -> process_draw_instruction(self, expr)
          [] instr = "LD" -> process_load_instruction(self, expr)
          [] OTHER -> self

\* faulty variant: a second declaration rebinds the label
process_label_rebinding(self, expr) ==
    [self EXCEPT !.labels =
        [l \in (DOMAIN @) \cup {expr[1].name} |->
            IF l = expr[1].name THEN self.address_counter ELSE @[l]]]

process_label(self, expr) ==
    IF expr[1].name \notin DOMAIN self.labels
    THEN [self EXCEPT !.labels =
            [l \in (DOMAIN @) \cup {expr[1].name} |->
                IF l = expr[1].name THEN self.address_counter ELSE @[l]]]
    ELSE Panic(self, "The label has already been used")

\* the loop `for i in 1..expr.len()` of the "db" arm, from index i (1-based: i + 1)
RECURSIVE db_loop(_, _, _)
db_loop(self, expr, i) ==
    IF i > Len(expr) \/ self.panic # "" THEN self
    ELSE IF expr[i].kind = "NumericLiteral"
    THEN IF self.address_counter >= BufferSize
         THEN Panic(self, "index out of bounds: the len is 4096")
         ELSE db_loop(
                increment_address_counter(
                    [self EXCEPT !.opcodes =
                        WriteByte(@, self.address_counter, AsU8(expr[i].value))],
                    1),
                expr, i + 1)
    ELSE db_loop(self, expr, i + 1)


\* faulty variant: org moves the counter by its operand instead of setting it
process_directive_org_relative(self, expr) ==
    CASE expr[1].name = "org" ->
            IF expr[2].kind = "NumericLiteral"
            THEN [self EXCEPT !.address_counter = @ + expr[2].value]
            ELSE self
      [] expr[1].name = "db" -> db_loop(self, expr, 2)
      [] OTHER -> self

process_directive(self, expr) ==
    CASE expr[1].name = "org" ->
            IF expr[2].kind = "NumericLiteral"
            THEN [self EXCEPT !.address_counter = expr[2].value]
            ELSE self
      [] expr[1].name = "db" -> db_loop(self, expr, 2)
      [] OTHER -> self

process_expression(self, expr) ==
    IF check(expr) # "Ok"
    THEN Panic(self, "unwrap on Err: SemanticsError")
    ELSE CASE expr[1].kind = "Directive" -> process_directive(self, expr)
           [] expr[1].kind = "Label" -> process_label(self, expr)
           [] expr[1].kind = "Instruction" -> process_instruction(self, expr)
           [] OTHER -> Panic(self, "Invalid token for start of expression")

\* self.opcodes.drain(..self.largest_address).collect(), for largest_address <= 4096
reduce_memory_size(self) ==
    [i \in 1..self.largest_address |-> ReadByte(self.opcodes, i - 1)]

\* faulty variant: the image is returned from address 0 whatever its length
trim_never(reduced_mem) == reduced_mem

\* faulty variant: an image of exactly 0x200 bytes is returned whole
trim_from_above(reduced_mem) ==
    IF Len(reduced_mem) <= LoadAddress
    THEN reduced_mem
    ELSE [i \in 1..(Len(reduced_mem) - LoadAddress) |-> reduced_mem[i + LoadAddress]]

\* lines 58-70 of generate: the returned vector
trim(reduced_mem) ==
    IF Len(reduced_mem) < LoadAddress
    THEN reduced_mem
    ELSE [i \in 1..(Len(reduced_mem) - LoadAddress) |-> reduced_mem[i + LoadAddress]]


\* faulty variant: the deferred instruction is emitted where the counter stands
second_pass_step_in_place(self) ==
    LET item == Head(self.incomplete_queue)
    IN  process_expression([self EXCEPT !.incomplete_queue = Tail(@)], item.expr)

\* one turn of the loop `while !self.incomplete_queue.is_empty()` of generate
second_pass_step(self) ==
    LET item == Head(self.incomplete_queue)
    IN  process_expression(
            [self EXCEPT !.incomplete_queue = Tail(@),
                         !.address_counter = item.address],
            item.expr)

\* the loop `for expr in exprs.iter()` of generate
RECURSIVE first_pass(_, _)
first_pass(self, es) ==
    IF es = <<>> \/ self.panic # "" THEN self
    ELSE first_pass(process_expression(self, Head(es)), Tail(es))

\* the record at position k of the queue is pushed back by its turn: the symbol
\* table does not change in pass 2, so it is pushed back on every turn it gets
Requeues(self, k) ==
    LET s == second_pass_step(
                 [self EXCEPT !.incomplete_queue = SubSeq(@, k, Len(@))])
    IN  s.panic = "" /\ Len(s.incomplete_queue) >= Len(self.incomplete_queue) - k + 1

\* the while loop of generate, up to its exit, a panic or a queue of records that
\* are all pushed back, which it turns over forever
RECURSIVE second_pass(_)
second_pass(self) ==
    IF \/ self.panic # ""
       \/ self.incomplete_queue = <<>>
       \/ \A k \in DOMAIN self.incomplete_queue : Requeues(self, k)
    THEN self
    ELSE second_pass(second_pass_step(self))

\* generate as a function of its argument: how the call ends and what it returns
generate(es) ==
    LET s == second_pass(first_pass(new, es))
    IN  IF s.panic # ""
        THEN [status |-> "panicked", output |-> <<>>]
        ELSE IF s.incomplete_queue # <<>>
        THEN [status |-> "loops", output |-> <<>>]
        ELSE IF s.largest_address > BufferSize
        THEN [status |-> "panicked", output |-> <<>>]
        ELSE [status |-> "returned", output |-> trim(reduce_memory_size(s))]


----------------------------------------------------------------------------
(* lexer.rs: the source is a sequence of bytes, written as one-character     *)
(* strings; the combinators of nom give Done, Error or Incomplete as above   *)

Digits == {"0", "1", "2", "3", "4", "5", "6", "7", "8", "9"}

HexDigits == Digits \cup {"a", "b", "c", "d", "e", "f", "A", "B", "C", "D", "E", "F"}

Letters ==
    {"A", "B", "C", "D", "E", "F", "G", "H", "I", "J", "K", "L", "M", "N", "O", "P",
     "Q", "R", "S", "T", "U", "V", "W", "X", "Y", "Z", "a", "b", "c", "d", "e", "f",
     "g", "h", "i", "j", "k", "l", "m", "n", "o", "p", "q", "r", "s", "t", "u", "v",
     "w", "x", "y", "z"}

\* nom::is_space
is_space == {" ", "\t"}

\* from_utf8 and FromStr::from_str: the bytes as a String
RECURSIVE from_utf8(_)
from_utf8(bytes) == IF bytes = <<>> THEN "" ELSE Head(bytes) \o from_utf8(Tail(bytes))

\* the value of one digit of a literal
DigitValue(c) ==
    CASE c = "0" -> 0 [] c = "1" -> 1 [] c = "2" -> 2 [] c = "3" -> 3
      [] c = "4" -> 4 [] c = "5" -> 5 [] c = "6" -> 6 [] c = "7" -> 7
      [] c = "8" -> 8 [] c = "9" -> 9
      [] c \in {"a", "A"} -> 10 [] c \in {"b", "B"} -> 11 [] c \in {"c", "C"} -> 12
      [] c \in {"d", "D"} -> 13 [] c \in {"e", "E"} -> 14 [] c \in {"f", "F"} -> 15

\* u32::from_str_radix(value, radix) and str::parse::<u32>, for the literals of
\* up to seven digits the sources here hold (no overflow of u32)
RECURSIVE from_str_radix(_, _, _)
from_str_radix(value, radix, acc) ==
    IF value = <<>> THEN acc
    ELSE from_str_radix(Tail(value), radix, acc * radix + DigitValue(Head(value)))

\* the length of the longest prefix of i made of bytes of the class S
RECURSIVE PrefixLen(_, _)
PrefixLen(i, S) ==
    IF i = <<>> \/ Head(i) \notin S THEN 0 ELSE 1 + PrefixLen(Tail(i), S)

\* the number of bytes of i before its first byte of the class S
RECURSIVE Position(_, _)
Position(i, S) ==
    IF i = <<>> \/ Head(i) \in S THEN 0 ELSE 1 + Position(Tail(i), S)

\* alphanumeric, digit, hex_digit and take_while1_s!: one or more bytes of S
take_while1(i, S) ==
    IF Len(i) = 0 THEN Incomplete(i)
    ELSE LET n == PrefixLen(i, S)
         IN  IF n = 0 THEN Error(i)
             ELSE Done(SubSeq(i, n + 1, Len(i)), SubSeq(i, 1, n))

\* tag!(t): Error at the first byte that differs, Incomplete when the input
\* ends inside the tag
tag(i, t) ==
    LET n == IF Len(i) < Len(t) THEN Len(i) ELSE Len(t)
    IN  IF SubSeq(i, 1, n) # SubSeq(t, 1, n) THEN Error(i)
        ELSE IF Len(i) < Len(t) THEN Incomplete(i)
        ELSE Done(SubSeq(i, Len(t) + 1, Len(i)), t)

\* alt!: the first branch that is not an Error
alt(i, branches) ==
    IF \E k \in DOMAIN branches : branches[k].r # "Error"
    THEN branches[CHOOSE k \in DOMAIN branches :
                    /\ branches[k].r # "Error"
                    /\ \A h \in 1..(k - 1) : branches[h].r = "Error"]
    ELSE Error(i)

\* alt_complete!: alt! with each branch under complete!
alt_complete(i, branches) ==
    alt(i, [k \in DOMAIN branches |-> complete(branches[k])])

\* opt!: Some(o) is <<o>>, None is <<>> with the input untouched; Incomplete passes
opt(i, res) ==
    IF res.r = "Done" THEN Done(res.rest, <<res.out>>)
    ELSE IF res.r = "Incomplete" THEN res
    ELSE Done(i, <<>>)

\* the result res with the token tok for its output
token(res, tok) == IF res.r = "Done" THEN Done(res.rest, tok) ELSE res

\* the result res with its output as a vector of one token, and of none
one(res) == IF res.r = "Done" THEN Done(res.rest, <<res.out>>) ELSE res

none(res) == IF res.r = "Done" THEN Done(res.rest, <<>>) ELSE res

lex_label(i) ==
    LET label == take_while1(i, Letters \cup Digits)
    IN  token(label, Label(from_utf8(label.out)))

lex_hex_literal(i) ==
    LET dollar == tag(i, <<"$">>)
        value == take_while1(dollar.rest, HexDigits)
    IN  IF dollar.r # "Done" THEN dollar
        ELSE token(value, NumericLiteral(from_str_radix(value.out, 16, 0)))

lex_decimal_literal(i) ==
    LET value == take_while1(i, Digits)
    IN  token(value, NumericLiteral(from_str_radix(value.out, 10, 0)))

lex_numeric_literal(i) == alt(i, <<lex_decimal_literal(i), lex_hex_literal(i)>>)

lex_column_sep(i) == take_while1(i, is_space)

lex_comma(i) == token(tag(i, <<",">>), Comma)

\* the tags of lex_registers, in the order of its alt!
RegisterTags ==
    <<<<"V", "0">>, <<"V", "1">>, <<"V", "2">>, <<"V", "3">>,
      <<"V", "4">>, <<"V", "5">>, <<"V", "6">>, <<"V", "7">>,
      <<"V", "8">>, <<"V", "9">>, <<"V", "A">>, <<"V", "B">>,
      <<"V", "C">>, <<"V", "D">>, <<"V", "E">>, <<"V", "F">>,
      <<"D", "T">>, <<"S", "T">>, <<"F">>, <<"[", "I", "]">>>>

lex_registers(i) ==
    LET reg == alt(i, [k \in DOMAIN RegisterTags |-> tag(i, RegisterTags[k])])
    IN  token(reg, Register(from_utf8(reg.out)))

\* the tags of lex_directives
DirectiveTags ==
    <<<<"o", "r", "g">>, <<"t", "o", "d", "o">>>>

lex_directives(i) ==
    LET directive == alt(i, [k \in DOMAIN DirectiveTags |-> tag(i, DirectiveTags[k])])
    IN  token(directive, Directive(from_utf8(directive.out)))

\* the tags of lex_mnem, in the order of its alt_complete!
MnemTags ==
    <<<<"C", "L", "S">>, <<"R", "E", "T">>, <<"S", "Y", "S">>, <<"J", "P">>,
      <<"J", "R">>, <<"C", "A", "L", "L">>, <<"S", "E">>, <<"S", "N", "E">>,
      <<"L", "D">>, <<"A", "D", "D">>, <<"S", "U", "B", "N">>, <<"S", "U", "B">>,
      <<"O", "R">>, <<"A", "N", "D">>, <<"X", "O", "R">>, <<"S", "H", "R">>,
      <<"S", "H", "L">>, <<"R", "N", "D">>, <<"D", "R", "W">>, <<"S", "K", "P">>,
      <<"S", "K", "N", "P">>>>

lex_mnem(i) ==
    LET instr == alt_complete(i, [k \in DOMAIN MnemTags |-> tag(i, MnemTags[k])])
    IN  token(instr, Instruction(from_utf8(instr.out)))

lex_label_operand(i) ==
    LET hash == tag(i, <<"#">>)
        label_operand == take_while1(hash.rest, Letters \cup Digits)
    IN  IF hash.r # "Done" THEN hash
        ELSE token(label_operand, LabelOperand(from_utf8(label_operand.out)))


\* nom::not_line_ending: the bytes up to the first "\r" or "\n"; a "\r" that no
\* "\n" follows is an Error
not_line_ending(i) ==
    LET n == Position(i, {"\r", "\n"})
        rest == SubSeq(i, n + 1, Len(i))
    IN  IF rest # <<>> /\ rest[1] = "\r" /\ tag(rest, <<"\r", "\n">>).r # "Done"
        THEN Error(i)
        ELSE Done(rest, SubSeq(i, 1, n))

lex_comments(i) ==
    LET semi == tag(i, <<";">>)
    IN  IF semi.r # "Done" THEN semi ELSE not_line_ending(semi.rest)

lex_line_ending(i) == alt_complete(i, <<tag(i, <<"\r", "\n">>), tag(i, <<"\n">>)>>)

\* do_parse! over the steps named, each on the input the step before left: the
\* first step that is not Done ends the sequence with its result; the output is
\* the vector of the tokens the steps gave, in order
RECURSIVE do_parse_step(_, _)
RECURSIVE do_parse(_, _, _)
do_parse_next(res, steps, out) ==
    IF res.r # "Done" THEN [res EXCEPT !.out = <<>>]
    ELSE do_parse(res.rest, steps, out \o res.out)

do_parse(i, steps, out) ==
    IF steps = <<>> THEN Done(i, out)
    ELSE do_parse_next(do_parse_step(Head(steps), i), Tail(steps), out)

lex_instruction(i) ==
    do_parse(i, <<"mnem: lex_mnem", "opt!(lex_column_sep)", "operand1", "opt!(lex_column_sep)",
                  "comma", "opt!(lex_column_sep)", "operand2">>, <<>>)

lex_line_termination(i) ==
    do_parse(i, <<"opt!(lex_column_sep)", "opt!(lex_comments)", "lex_line_ending">>, <<>>)

\* one step of a do_parse! of the lexer, by the text of the step
do_parse_step(step, i) ==
    CASE step = "mnem: lex_mnem" -> one(lex_mnem(i))
      [] step = "opt!(lex_column_sep)" -> none(opt(i, lex_column_sep(i)))
      [] step = "operand1" ->
            opt(i, alt_complete(i, <<lex_registers(i), lex_numeric_literal(i),
                                     lex_label_operand(i)>>))
      [] step = "comma" -> opt(i, lex_comma(i))
      [] step = "operand2" ->
            opt(i, alt_complete(i, <<lex_registers(i), lex_numeric_literal(i)>>))
      [] step = "opt!(lex_comments)" -> none(opt(i, lex_comments(i)))
      [] step = "lex_line_ending" -> none(lex_line_ending(i))
      [] step = "lex_line_termination" -> lex_line_termination(i)
      [] step = "lex_column_sep" -> none(lex_column_sep(i))
      [] step = "directive: lex_directives" -> one(lex_directives(i))
      [] step = "numeric: lex_numeric_literal" -> one(lex_numeric_literal(i))
      [] step = "label: lex_label" -> one(lex_label(i))
      [] step = "instrs: lex_instruction" -> lex_instruction(i)

lex_line1(i) == do_parse(i, <<"lex_line_ending">>, <<>>)

lex_line2(i) == do_parse(i, <<"lex_line_termination">>, <<>>)

lex_line3(i) ==
    do_parse(i, <<"lex_column_sep", "directive: lex_directives", "lex_column_sep",
                  "numeric: lex_numeric_literal", "lex_line_termination">>, <<>>)

lex_line4(i) == do_parse(i, <<"label: lex_label", "lex_line_termination">>, <<>>)

lex_line5(i) ==
    do_parse(i, <<"lex_column_sep", "instrs: lex_instruction", "lex_line_termination">>,
             <<>>)

lex_line6(i) ==
    do_parse(i, <<"label: lex_label", "lex_column_sep", "instrs: lex_instruction",
                  "lex_line_termination">>, <<>>)

\* the alt_complete! of lex_lines
alt_line(i) ==
    alt_complete(i, <<lex_line1(i), lex_line2(i), lex_line3(i), lex_line4(i),
                      lex_line5(i), lex_line6(i)>>)

\* the many0! of lex_lines: the token vectors of the lines up to the end of the
\* input or to the first line no alternative matches
RECURSIVE many0_lines(_, _)
many0_next(input, res, o) ==
    IF o.r = "Error" THEN Done(input, res)
    ELSE IF o.r = "Incomplete" THEN Incomplete(input)
    ELSE IF o.rest = input THEN Error(input)
    ELSE many0_lines(o.rest, Append(res, o.out))

many0_lines(input, res) ==
    IF Len(input) = 0 THEN Done(input, res)
    ELSE many0_next(input, res, alt_line(input))

\* the two loops of lex_lines over line_tokens
RECURSIVE flatten_line_tokens(_)
flatten_line_tokens(line_tokens) ==
    IF line_tokens = <<>> THEN <<>>
    ELSE Head(line_tokens) \o flatten_line_tokens(Tail(line_tokens))

lex_lines(i) ==
    LET line_tokens == many0_lines(i, <<>>)
    IN  token(line_tokens, flatten_line_tokens(line_tokens.out))

\* tokenize: Ok(tokens) or Err(LexerError); rest is the input lex_lines left
\* unread, which the match arm of Done discards
tokenize(input) ==
    LET lexer_result == lex_lines(input)
    IN  IF lexer_result.r = "Done"
        THEN [status |-> "Ok", tokens |-> lexer_result.out, rest |-> lexer_result.rest]
        ELSE [status |-> "Err", tokens |-> <<>>, rest |-> lexer_result.rest]

----------------------------------------------------------------------------
(* mod.rs *)

\* CodeGenerator::add, which assemble calls and codegenerator.rs does not define:
\* the step of the generator on one expression
add(self, expr) == process_expression(self, expr)

\* the loop `for expr in exprs.iter()` of assemble
RECURSIVE assemble_loop(_, _)
assemble_loop(codegen, es) ==
    IF es = <<>> \/ codegen.panic # "" THEN codegen
    ELSE IF check(Head(es)) # "Ok"
    THEN Panic(codegen, "unwrap on Err: SemanticsError")
    ELSE assemble_loop(add(codegen, Head(es)), Tail(es))

\* assemble from the results of its calls of tokenize and parse: the generator
\* it leaves behind and the vector it returns
assemble(lexer_result, parser_result) ==
    IF lexer_result.status # "Ok"
    THEN [codegen |-> Panic(new, "unwrap on Err: LexerError"), image |-> <<>>]
    ELSE IF parser_result.status # "Ok"
    THEN [codegen |-> Panic(new, "unwrap on Err: ParserError"), image |-> <<>>]
    ELSE [codegen |-> assemble_loop(new, parser_result.exprs), image |-> <<>>]

----------------------------------------------------------------------------
(* Inputs *)

LabelNames == {"L", "M"}

OrgAddresses == {0, 510, 512, 4095}

\* the expressions programs of Spec are made of
ProgExprs ==
    {<<Label(n)>> : n \in LabelNames}
    \cup {<<Directive("org"), NumericLiteral(a)>> : a \in OrgAddresses}
    \cup {<<Directive("db"), NumericLiteral(511)>>,
          <<Directive("db"), NumericLiteral(1), NumericLiteral(2)>>}
    \cup {<<Instruction("CLS")>>,
          <<Instruction("JP"), LabelOperand("L")>>,
          <<Instruction("CALL"), LabelOperand("M")>>,
          <<Instruction("LD"), Register("I"), LabelOperand("L")>>,
          <<Instruction("LD"), Register("V1"), NumericLiteral(255)>>,
          <<Instruction("SE"), Register("V0"), Register("V1")>>,
          <<Instruction("SYS"), NumericLiteral(291)>>}

Mnemonics ==
    {"CLS", "RET", "SYS", "JP", "JR", "CALL", "SE", "SNE", "LD", "ADD", "SUBN",
     "SUB", "OR", "AND", "XOR", "SHR", "SHL", "RND", "DRW", "SKP", "SKNP"}

EncNumbers == {0, 15, 255, 512, 4095, 4096, 74565}

EncOperands ==
    {Register(r) : r \in RegisterNames}
    \cup {NumericLiteral(n) : n \in EncNumbers}
    \cup {LabelOperand("L")}

\* the instruction expressions of SpecEnc: every mnemonic with no, one or two
\* operands of any kind, DRW with its three, and every mnemonic with three
EncExprs ==
    {<<Instruction(m)>> : m \in Mnemonics}
    \cup {<<Instruction(m), a>> : m \in Mnemonics, a \in EncOperands}
    \cup {<<Instruction(m), a, b>> : m \in Mnemonics, a \in EncOperands, b \in EncOperands}
    \cup {<<Instruction("DRW"), Register(x), Register(y), NumericLiteral(n)>> :
            x \in RegisterNames, y \in RegisterNames, n \in EncNumbers}
    \cup {<<Instruction(m), Register("V0"), Register("V1"), NumericLiteral(15)>> :
            m \in Mnemonics}

----------------------------------------------------------------------------
(* generate as a state machine *)

\* tokenize has not been called
NotLexed == [status |-> "none", tokens |-> <<>>, rest |-> <<>>]

\* parse has not been called
NotParsed == [status |-> "none", exprs |-> <<>>, rest |-> <<>>]

Self ==
    [address_counter |-> address_counter,
     labels |-> labels,
     opcodes |-> opcodes,
     incomplete_queue |-> incomplete_queue,
     largest_address |-> largest_address,
     panic |-> panic]

Install(s) ==
    /\ address_counter' = s.address_counter
    /\ labels' = s.labels
    /\ opcodes' = s.opcodes
    /\ incomplete_queue' = s.incomplete_queue
    /\ largest_address' = s.largest_address
    /\ panic' = s.panic

Init ==
    /\ exprs = <<>>
    /\ phase = "pass1"
    /\ address_counter = new.address_counter
    /\ labels = new.labels
    /\ opcodes = new.opcodes
    /\ incomplete_queue = new.incomplete_queue
    /\ largest_address = new.largest_address
    /\ panic = new.panic
    /\ output = <<>>
    /\ tokens = <<>>
    /\ parsed = NotParsed
    /\ source = <<>>
    /\ lexed = NotLexed

\* one turn of the first loop of generate, on expression e
Feed(e) ==
    /\ phase = "pass1"
    /\ LET s == process_expression(Self, e)
       IN  /\ Install(s)
           /\ phase' = IF s.panic # "" THEN "panicked" ELSE "pass1"
    /\ exprs' = Append(exprs, e)
    /\ output' = output
    /\ UNCHANGED <<tokens, parsed, source, lexed>>

ProcessNext ==
    /\ phase = "pass1"
    /\ Len(exprs) < MaxExprs
    /\ \E e \in ProgExprs : Feed(e)

\* the first loop ends with the argument
EndOfPass1 ==
    /\ phase = "pass1"
    /\ phase' = "pass2"
    /\ UNCHANGED <<exprs, address_counter, labels, opcodes, incomplete_queue,
                   largest_address, panic, output, tokens, parsed, source, lexed>>

SecondPass ==
    /\ phase = "pass2"
    /\ incomplete_queue # <<>>
    /\ LET s == second_pass_step(Self)
       IN  /\ Install(s)
           /\ phase' = IF s.panic # "" THEN "panicked" ELSE "pass2"
    /\ UNCHANGED <<exprs, output, tokens, parsed, source, lexed>>

Return ==
    /\ phase = "pass2"
    /\ incomplete_queue = <<>>
    /\ IF largest_address > BufferSize
       THEN /\ phase' = "panicked"
            /\ panic' = "drain: end out of range"
            /\ output' = output
       ELSE /\ phase' = "returned"
            /\ panic' = panic
            /\ output' = trim(reduce_memory_size(Self))
    /\ UNCHANGED <<exprs, address_counter, labels, opcodes, incomplete_queue,
                   largest_address, tokens, parsed, source, lexed>>

Next == ProcessNext \/ EndOfPass1 \/ SecondPass \/ Return

Spec == Init /\ [][Next]_vars

\* SpecEnc: programs of one instruction of any shape, with declarations of L
\* before or after it
EncInputs == EncExprs \cup {<<Label("L")>>}

EncodeNext ==
    /\ phase = "pass1"
    /\ Len(exprs) < MaxEncExprs
    /\ \E e \in IF \A i \in DOMAIN exprs : exprs[i][1].kind # "Instruction"
                THEN EncInputs
                ELSE {<<Label("L")>>} :
          Feed(e)

NextEnc == EncodeNext \/ EndOfPass1 \/ SecondPass \/ Return

SpecEnc == Init /\ [][NextEnc]_vars

\* SpecParse: parse applied to a token stream, and generate to what it returns
SingleTokens ==
    {Directive("org"), Label("L"), Instruction("CLS"), Instruction("DRW"),
     Instruction("JP"), Register("V0"), Register("V1"), NumericLiteral(15),
     LabelOperand("L"), Comma}

\* the pieces token streams are made of: every single token, and the tokens
\* of some whole lines
TokenChunks ==
    {<<t>> : t \in SingleTokens}
    \cup {<<Directive("org"), NumericLiteral(512)>>,
          <<Directive("db"), NumericLiteral(1), NumericLiteral(2)>>,
          <<Instruction("LD"), Register("V0"), Comma, Register("V1")>>,
          <<Instruction("DRW"), Register("V0"), Comma, Register("V1"), Comma,
            NumericLiteral(15)>>}

\* the token streams of at most k chunks
RECURSIVE TokenStreams(_)
TokenStreams(k) ==
    IF k = 0 THEN {<<>>}
    ELSE TokenStreams(k - 1)
            \cup {s \o c : s \in TokenStreams(k - 1), c \in TokenChunks}

InitParse ==
    /\ tokens \in TokenStreams(MaxChunks)
    /\ parsed = NotParsed
    /\ source = <<>>
    /\ lexed = NotLexed
    /\ phase = "lexed"
    /\ exprs = <<>>
    /\ address_counter = new.address_counter
    /\ labels = new.labels
    /\ opcodes = new.opcodes
    /\ incomplete_queue = new.incomplete_queue
    /\ largest_address = new.largest_address
    /\ panic = new.panic
    /\ output = <<>>

\* parser::parse(tokens)
Parse ==
    /\ phase = "lexed"
    /\ parsed' = parse(tokens)
    /\ phase' = "parsed"
    /\ UNCHANGED <<exprs, address_counter, labels, opcodes, incomplete_queue,
                   largest_address, panic, output, tokens, source, lexed>>

\* CodeGenerator::new().generate(exprs) on the expressions parse returned
GenerateParsed ==
    /\ phase = "parsed"
    /\ parsed.status = "Ok"
    /\ LET s == second_pass(first_pass(new, parsed.exprs))
           g == generate(parsed.exprs)
       IN  /\ Install([s EXCEPT !.panic =
                        IF g.status = "panicked" /\ @ = ""
                        THEN "drain: end out of range" ELSE @])
           /\ phase' = g.status
           /\ output' = g.output
    /\ exprs' = parsed.exprs
    /\ UNCHANGED <<tokens, parsed, source, lexed>>

NextParse == Parse \/ GenerateParsed

SpecParse == InitParse /\ [][NextParse]_vars


----------------------------------------------------------------------------
(* tokenize and assemble as a state machine: the source is made of whole     *)
(* lines, each ended by a line ending                                        *)

MaxLines == 2

\* lines of each form of the line grammar, lines with a db directive, a third
\* operand and a byte of no form, and empty lines with either line ending
SourceLines ==
    {<<" ", "C", "L", "S", "\n">>,
     <<" ", "o", "r", "g", " ", "$", "2", "0", "0", "\n">>,
     <<" ", "d", "b", " ", "1", "\n">>,
     <<"L", "\n">>,
     <<"M", "\n">>,
     <<"L", " ", "J", "P", " ", "#", "L", "\n">>,
     <<" ", "J", "P", " ", "#", "M", "\n">>,
     <<" ", "C", "A", "L", "L", " ", "5", "1", "2", " ", ";", "c", "\r", "\n">>,
     <<" ", "L", "D", " ", "V", "1", ",", " ", "2", "5", "5", "\n">>,
     <<" ", "D", "R", "W", " ", "V", "0", ",", " ", "V", "1", ",", " ", "1", "\n">>,
     <<";", " ", "c", "\n">>,
     <<"?", "\n">>,
     <<"\n">>,
     <<"\r", "\n">>}

\* the bytes of the register names of the keyword sets
RegisterNameBytes ==
    {RegisterTags[k] : k \in DOMAIN RegisterTags} \cup {<<"I">>, <<"B">>, <<"K">>}

\* the line " LD V0, r" for each register name r
OperandLines ==
    {<<" ", "L", "D", " ", "V", "0", ",", " ">> \o r \o <<"\n">> : r \in RegisterNameBytes}

\* the sources of at most k of the lines above
RECURSIVE Sources(_)
Sources(k) ==
    IF k = 0 THEN {<<>>}
    ELSE Sources(k - 1) \cup {s \o l : s \in Sources(k - 1), l \in SourceLines}

InitLex ==
    /\ source \in Sources(MaxLines)
                    \cup {s \o l : s \in Sources(MaxLines - 1), l \in OperandLines}
    /\ lexed = NotLexed
    /\ tokens = <<>>
    /\ parsed = NotParsed
    /\ phase = "source"
    /\ exprs = <<>>
    /\ address_counter = new.address_counter
    /\ labels = new.labels
    /\ opcodes = new.opcodes
    /\ incomplete_queue = new.incomplete_queue
    /\ largest_address = new.largest_address
    /\ panic = new.panic
    /\ output = <<>>

\* lexer::tokenize(source)
Tokenize ==
    /\ phase = "source"
    /\ lexed' = tokenize(source)
    /\ tokens' = lexed'.tokens
    /\ phase' = "tokenized"
    /\ UNCHANGED <<exprs, address_counter, labels, opcodes, incomplete_queue,
                   largest_address, panic, output, parsed, source>>

\* assembler::assemble(source)
Assemble ==
    /\ phase = "source"
    /\ lexed' = tokenize(source)
    /\ tokens' = lexed'.tokens
    /\ parsed' = IF lexed'.status = "Ok" THEN parse(tokens') ELSE NotParsed
    /\ exprs' = parsed'.exprs
    /\ LET a == assemble(lexed', parsed')
       IN  /\ Install(a.codegen)
           /\ output' = a.image
           /\ phase' = IF a.codegen.panic # "" THEN "panicked" ELSE "assembled"
    /\ source' = source

NextLex == Tokenize \/ Assemble

SpecLex == InitLex /\ [][NextLex]_vars

----------------------------------------------------------------------------
(* Vocabulary of the properties *)

IsLabelDecl(e, n) == e = <<Label(n)>>

IsInstr(e) == e[1].kind = "Instruction"

IsOrg(e) == e[1] = Directive("org")

IsDb(e) == e[1] = Directive("db")

\* e is an instruction with the operand #n
RefersTo(e, n) == IsInstr(e) /\ \E k \in 2..Len(e) : e[k] = LabelOperand(n)

\* the label an instruction with a label operand names
LabelOperandOf(e) ==
    LET k == CHOOSE k \in 2..Len(e) : e[k].kind = "LabelOperand"
    IN  e[k].name

\* es with the expression at j moved to just before the one at i (i < j)
MoveBefore(es, i, j) ==
    SubSeq(es, 1, i - 1) \o <<es[j]>> \o SubSeq(es, i, j - 1)
        \o SubSeq(es, j + 1, Len(es))

\* e with its label operand replaced by the numeric literal a
WithLiteral(e, a) ==
    [k \in DOMAIN e |-> IF e[k].kind = "LabelOperand" THEN NumericLiteral(a) ELSE e[k]]

\* the forward references of the program taken: i names L, which position j > i
\* declares, and no org lies between the two
ForwardRefs ==
    {p \in (DOMAIN exprs) \X (DOMAIN exprs) :
        /\ p[1] < p[2]
        /\ \E n \in LabelNames :
              /\ RefersTo(exprs[p[1]], n)
              /\ IsLabelDecl(exprs[p[2]], n)
        /\ \A k \in (p[1] + 1)..(p[2] - 1) : ~IsOrg(exprs[k])}

----------------------------------------------------------------------------
(* C1: when pass 2 takes up a deferred instruction whose label is in no      *)
(* symbol table entry (no Label expression declared it), generate stops      *)
(* with an error.                                                            *)
UndefinedLabelFails ==
    [][(/\ phase = "pass2"
        /\ incomplete_queue # <<>>
        /\ LabelOperandOf(Head(incomplete_queue).expr) \notin DOMAIN labels)
       => phase' = "panicked"]_vars

(* C2, as stated: when generate returns, it returns the same image as for    *)
(* the program with the declaration of a forward-referenced label moved to   *)
(* just before the referencing instruction.                                  *)
ForwardReferenceMoved ==
    phase = "returned" =>
        \A p \in ForwardRefs :
            generate(MoveBefore(exprs, p[1], p[2]))
                = [status |-> "returned", output |-> output]

\* no org after position i of the program taken
NoOrgAfter(i) == \A k \in (i + 1)..Len(exprs) : ~IsOrg(exprs[k])

\* position i is where the program's first deferred instruction stands
FirstDeferred(i) ==
    /\ \E n \in LabelNames :
          /\ RefersTo(exprs[i], n)
          /\ \A k \in 1..(i - 1) : ~IsLabelDecl(exprs[k], n)
    /\ \A h \in 1..(i - 1) :
          ~\E n \in LabelNames :
              /\ RefersTo(exprs[h], n)
              /\ \A k \in 1..(h - 1) : ~IsLabelDecl(exprs[k], n)

(* C2, amended: when generate returns, and no org follows the first deferred *)
(* instruction of the program, it returns the same image as for the program  *)
(* in which a forward reference to L is replaced by the numeric literal of   *)
(* the address L is bound to.                                                *)
ForwardReferenceAsLiteral ==
    (phase = "returned" /\ \A i \in DOMAIN exprs : FirstDeferred(i) => NoOrgAfter(i)) =>
        \A p \in ForwardRefs :
            generate([exprs EXCEPT ![p[1]] =
                        WithLiteral(@, labels[LabelOperandOf(@)])])
                = [status |-> "returned", output |-> output]

\* a forward reference over an instruction was resolved and the image returned
ForwardReferenceResolved ==
    /\ phase = "returned"
    /\ \A i \in DOMAIN exprs : FirstDeferred(i) => NoOrgAfter(i)
    /\ \E p \in ForwardRefs : p[2] > p[1] + 1 /\ IsInstr(exprs[p[1] + 1])
    /\ Len(output) > 0

\* the pairs of positions of the program taken that declare the same label
DuplicateDecls ==
    {p \in (DOMAIN exprs) \X (DOMAIN exprs) :
        /\ p[1] < p[2]
        /\ exprs[p[1]][1].kind = "Label"
        /\ exprs[p[1]] = exprs[p[2]]}

(* C3: once generate has taken a second declaration of a label, whatever lies *)
(* between the two, it has failed with the duplicate-label error and returns  *)
(* no image, and the symbol table binds the name to the address counter of    *)
(* the first declaration.                                                     *)
DuplicateLabelDetected ==
    \A p \in DuplicateDecls :
        /\ phase = "panicked"
        /\ panic = "The label has already been used"
        /\ output = <<>>
        /\ exprs[p[1]][1].name \in DOMAIN labels
        /\ labels[exprs[p[1]][1].name]
              = first_pass(new, SubSeq(exprs, 1, p[1] - 1)).address_counter

\* a second declaration was taken after the counter had moved on
DuplicateLabelSeen ==
    \E p \in DuplicateDecls :
        /\ p[2] > p[1] + 1
        /\ phase = "panicked"
        /\ labels[exprs[p[1]][1].name] # address_counter

----------------------------------------------------------------------------
(* The opcode table of the specification, section 4.4.1 *)

\* the hexadecimal digit after 'V'
RegIndex(name) ==
    CASE name = "V0" -> 0 [] name = "V1" -> 1 [] name = "V2" -> 2
      [] name = "V3" -> 3 [] name = "V4" -> 4 [] name = "V5" -> 5
      [] name = "V6" -> 6 [] name = "V7" -> 7 [] name = "V8" -> 8
      [] name = "V9" -> 9 [] name = "VA" -> 10 [] name = "VB" -> 11
      [] name = "VC" -> 12 [] name = "VD" -> 13 [] name = "VE" -> 14
      [] name = "VF" -> 15

IsV(t) == t.kind = "Register" /\ t.name \in GeneralPurposeNames

IsImm(t, width) == t.kind = "NumericLiteral" /\ t.value < width

IsReg(t, n) == t = Register(n)

\* the last nibble of the 8xy? rows
AluNibble(m) ==
    CASE m = "LD" -> 0 [] m = "OR" -> 1 [] m = "AND" -> 2 [] m = "XOR" -> 3
      [] m = "ADD" -> 4 [] m = "SUB" -> 5 [] m = "SHR" -> 6 [] m = "SUBN" -> 7
      [] m = "SHL" -> 14

\* the 16-bit opcode of the table's row for instruction expression e; -1 when
\* e is not of the shape of any row
RowOpcode(e) ==
    LET m == e[1].name
        x == RegIndex(e[2].name)
        y == RegIndex(e[3].name)
    IN  CASE Len(e) = 1 /\ m = "CLS" -> 224
          [] Len(e) = 1 /\ m = "RET" -> 238
          [] Len(e) = 2 /\ m = "JP" /\ IsImm(e[2], 4096) -> 4096 + e[2].value
          [] Len(e) = 2 /\ m = "CALL" /\ IsImm(e[2], 4096) -> 8192 + e[2].value
          [] Len(e) = 2 /\ m = "JR" /\ IsImm(e[2], 4096) -> 45056 + e[2].value
          [] Len(e) = 2 /\ m = "SKP" /\ IsV(e[2]) -> 57344 + 256 * x + 158
          [] Len(e) = 2 /\ m = "SKNP" /\ IsV(e[2]) -> 57344 + 256 * x + 161
          [] Len(e) = 3 /\ m = "SE" /\ IsV(e[2]) /\ IsImm(e[3], 256) ->
                12288 + 256 * x + e[3].value
          [] Len(e) = 3 /\ m = "SNE" /\ IsV(e[2]) /\ IsImm(e[3], 256) ->
                16384 + 256 * x + e[3].value
          [] Len(e) = 3 /\ m = "LD" /\ IsV(e[2]) /\ IsImm(e[3], 256) ->
                24576 + 256 * x + e[3].value
          [] Len(e) = 3 /\ m = "ADD" /\ IsV(e[2]) /\ IsImm(e[3], 256) ->
                28672 + 256 * x + e[3].value
          [] Len(e) = 3 /\ m = "RND" /\ IsV(e[2]) /\ IsImm(e[3], 256) ->
                49152 + 256 * x + e[3].value
          [] Len(e) = 3 /\ m = "SE" /\ IsV(e[2]) /\ IsV(e[3]) ->
                20480 + 256 * x + 16 * y
          [] Len(e) = 3 /\ m = "SNE" /\ IsV(e[2]) /\ IsV(e[3]) ->
                36864 + 256 * x + 16 * y
          [] Len(e) = 3 /\ IsV(e[2]) /\ IsV(e[3])
             /\ m \in {"LD", "OR", "AND", "XOR", "ADD", "SUB", "SHR", "SUBN", "SHL"} ->
                32768 + 256 * x + 16 * y + AluNibble(m)
          [] Len(e) = 3 /\ m = "LD" /\ IsReg(e[2], "I") /\ IsImm(e[3], 4096) ->
                40960 + e[3].value
          [] Len(e) = 4 /\ m = "DRW" /\ IsV(e[2]) /\ IsV(e[3]) /\ IsImm(e[4], 16) ->
                53248 + 256 * x + 16 * y + e[4].value
          [] Len(e) = 3 /\ m = "LD" /\ IsV(e[2]) /\ IsReg(e[3], "DT") ->
                61440 + 256 * x + 7
          [] Len(e) = 3 /\ m = "LD" /\ IsV(e[2]) /\ IsReg(e[3], "K") ->
                61440 + 256 * x + 10
          [] Len(e) = 3 /\ m = "LD" /\ IsReg(e[2], "DT") /\ IsV(e[3]) ->
                61440 + 256 * y + 21
          [] Len(e) = 3 /\ m = "LD" /\ IsReg(e[2], "ST") /\ IsV(e[3]) ->
                61440 + 256 * y + 24
          [] Len(e) = 3 /\ m = "ADD" /\ IsReg(e[2], "I") /\ IsV(e[3]) ->
                61440 + 256 * y + 30
          [] Len(e) = 3 /\ m = "LD" /\ IsReg(e[2], "F") /\ IsV(e[3]) ->
                61440 + 256 * y + 41
          [] Len(e) = 3 /\ m = "LD" /\ IsReg(e[2], "B") /\ IsV(e[3]) ->
                61440 + 256 * y + 51
          [] Len(e) = 3 /\ m = "LD" /\ IsReg(e[2], "[I]") /\ IsV(e[3]) ->
                61440 + 256 * y + 85
          [] Len(e) = 3 /\ m = "LD" /\ IsV(e[2]) /\ IsReg(e[3], "[I]") ->
                61440 + 256 * x + 101
          [] OTHER -> -1

\* the program taken is the single instruction e, and generate wrote the
\* opcode op, most significant byte first, at address 0
WroteAlone(op) ==
    /\ phase # "panicked"
    /\ ReadByte(opcodes, 0) = op \div 256
    /\ ReadByte(opcodes, 1) = op % 256
    /\ largest_address = 2

(* C4: generate applied to a single instruction of the shape of a row of the  *)
(* opcode table, for every x and y in 0..15 and every immediate within its    *)
(* field, writes the row's opcode, most significant byte first.               *)
EncodingTableTotality ==
    (Len(exprs) = 1 /\ IsInstr(exprs[1]) /\ RowOpcode(exprs[1]) >= 0)
        => WroteAlone(RowOpcode(exprs[1]))

(* C5: the single instruction SE Vx, Vy is encoded as 5xy0 and SNE Vx, Vy as  *)
(* 9xy0, the address counter advances by 2, and generate does not fail.       *)
CompareRegistersEncoded ==
    \A x \in GeneralPurposeNames, y \in GeneralPurposeNames :
        /\ exprs = << <<Instruction("SE"), Register(x), Register(y)>> >>
              => /\ phase # "panicked"
                 /\ ReadByte(opcodes, 0) = 80 + RegIndex(x)
                 /\ ReadByte(opcodes, 1) = 16 * RegIndex(y)
                 /\ phase = "pass1" => address_counter = 2
        /\ exprs = << <<Instruction("SNE"), Register(x), Register(y)>> >>
              => /\ phase # "panicked"
                 /\ ReadByte(opcodes, 0) = 144 + RegIndex(x)
                 /\ ReadByte(opcodes, 1) = 16 * RegIndex(y)
                 /\ phase = "pass1" => address_counter = 2

(* C6: for each of V0..VF as the operand of SKP, and as the operands of OR,   *)
(* the conversion succeeds and the register nibbles of the opcode hold the    *)
(* value of the hexadecimal digit after 'V'.                                  *)
RegisterIndexIsHexDigit ==
    \A x \in GeneralPurposeNames, y \in GeneralPurposeNames :
        /\ exprs = << <<Instruction("SKP"), Register(x)>> >>
              => /\ phase # "panicked"
                 /\ ReadByte(opcodes, 0) % 16 = RegIndex(x)
        /\ exprs = << <<Instruction("OR"), Register(x), Register(y)>> >>
              => /\ phase # "panicked"
                 /\ ReadByte(opcodes, 0) % 16 = RegIndex(x)
                 /\ ReadByte(opcodes, 1) \div 16 = RegIndex(y)

(* C7: in pass 1 the expression LD I, #n is accepted; when n is in the symbol *)
(* table the opcode Annn of its address is written at the address counter,    *)
(* otherwise the instruction is queued with the address counter; either way   *)
(* the counter advances by 2.                                                 *)
LoadIndexFromLabel ==
    [][\A n \in LabelNames :
        (/\ phase = "pass1"
         /\ exprs' = Append(exprs, <<Instruction("LD"), Register("I"), LabelOperand(n)>>)
         /\ address_counter + 1 < BufferSize)
        => /\ phase' = "pass1"
           /\ address_counter' = address_counter + 2
           /\ IF n \in DOMAIN labels
              THEN /\ ReadByte(opcodes', address_counter)
                        = 160 + ((labels[n] \div 256) % 16)
                   /\ ReadByte(opcodes', address_counter + 1) = labels[n] % 256
                   /\ incomplete_queue' = incomplete_queue
              ELSE /\ incomplete_queue' =
                        Append(incomplete_queue,
                               [address |-> address_counter,
                                expr |-> <<Instruction("LD"), Register("I"),
                                           LabelOperand(n)>>])
                   /\ opcodes' = opcodes]_vars

(* C8: in pass 1 a db directive with K >= 1 numeric operands that fit in the  *)
(* buffer is accepted, writes operand i modulo 256 at the address counter     *)
(* plus i - 1, and leaves the counter K higher.                               *)
DbWritesEachByte ==
    [][\A e \in ProgExprs :
        (/\ IsDb(e)
         /\ phase = "pass1"
         /\ exprs' = Append(exprs, e)
         /\ address_counter + Len(e) - 1 <= BufferSize)
        => /\ phase' = "pass1"
           /\ address_counter' = address_counter + Len(e) - 1
           /\ \A i \in 2..Len(e) :
                 ReadByte(opcodes', address_counter + i - 2) = e[i].value % 256]_vars

\* the position of the last org of the program taken, 0 if it has none
LastOrg ==
    IF \E k \in DOMAIN exprs : IsOrg(exprs[k])
    THEN CHOOSE k \in DOMAIN exprs :
            IsOrg(exprs[k]) /\ \A h \in (k + 1)..Len(exprs) : ~IsOrg(exprs[h])
    ELSE 0

\* the number of db bytes of the expressions of es
RECURSIVE DbBytes(_)
DbBytes(es) ==
    IF es = <<>> THEN 0
    ELSE (IF IsDb(Head(es)) THEN Len(Head(es)) - 1 ELSE 0) + DbBytes(Tail(es))

(* C9: in pass 1, after the last org (or the start), N instruction            *)
(* expressions and db directives of K bytes in all have raised the address    *)
(* counter by exactly 2N + K.                                                 *)
CounterGrowsBy2NPlusK ==
    phase = "pass1" =>
        address_counter
            = (IF LastOrg = 0 THEN 0 ELSE exprs[LastOrg][2].value)
              + 2 * Cardinality({k \in (LastOrg + 1)..Len(exprs) : IsInstr(exprs[k])})
              + DbBytes(SubSeq(exprs, LastOrg + 1, Len(exprs)))

(* C10: generate returns the bytes at addresses 0 .. hwm - 1 when the         *)
(* high-water mark hwm is below 0x200, and the bytes at addresses             *)
(* 0x200 .. hwm - 1 when it is 0x200 or more.                                 *)
ImageTrimming ==
    phase = "returned" =>
        IF largest_address < 512
        THEN /\ Len(output) = largest_address
             /\ \A i \in 0..(largest_address - 1) :
                   output[i + 1] = ReadByte(opcodes, i)
        ELSE /\ Len(output) = largest_address - 512
             /\ \A i \in 0..(largest_address - 513) :
                   output[i + 1] = ReadByte(opcodes, 512 + i)

\* an image was returned that starts at 0x200, with bytes left behind below it
ImageTrimmed ==
    /\ phase = "returned"
    /\ largest_address > 512
    /\ \E a \in 0..511 : ReadByte(opcodes, a) # 0
    /\ \E i \in DOMAIN output : output[i] # 0

----------------------------------------------------------------------------
(* C11, as stated: generate returns the bytes at addresses 0 .. hwm - 1       *)
(* whenever the high-water mark hwm is at most 0x200, and discards the first  *)
(* 0x200 bytes only when hwm is above 0x200.                                  *)
UntrimmedUpToLoadAddress ==
    phase = "returned" =>
        /\ largest_address <= 512 =>
              output = [i \in 1..largest_address |-> ReadByte(opcodes, i - 1)]
        /\ largest_address > 512 => Len(output) = largest_address - 512

(* C11, amended: generate discards the first 0x200 bytes when the high-water  *)
(* mark is 0x200 or more, and returns the bytes at addresses 0 .. hwm - 1     *)
(* only when it is below 0x200; at exactly 0x200 the image is empty.          *)
TrimmedFromLoadAddress ==
    phase = "returned" =>
        /\ largest_address < 512 =>
              output = [i \in 1..largest_address |-> ReadByte(opcodes, i - 1)]
        /\ largest_address >= 512 =>
              output = [i \in 1..(largest_address - 512) |-> ReadByte(opcodes, 511 + i)]
        /\ largest_address = 512 => output = <<>>

\* generate returned with the high-water mark at exactly 0x200 and bytes below it
TrimmedAtLoadAddress ==
    /\ phase = "returned"
    /\ largest_address = 512
    /\ \E a \in 0..511 : ReadByte(opcodes, a) # 0
    /\ output = <<>>

(* C12: in every state of generate the address counter is at most 0xFFF.      *)
CounterWithinBuffer == address_counter <= 4095

\* the last expression generate has taken
LastExpr == exprs[Len(exprs)]

(* C13, as stated: the high-water mark never decreases, and after every       *)
(* pass-1 step that raises the address counter, an org to a higher address    *)
(* included, it is at least the address counter.                              *)
HighWaterMarkFollowsCounter ==
    [][/\ largest_address' >= largest_address
       /\ (phase = "pass1" /\ address_counter' > address_counter)
             => largest_address' >= address_counter']_vars

(* C13, amended: the high-water mark never decreases, and after every pass-1  *)
(* step that raises the address counter by emitting an opcode, writing a db   *)
(* byte or reserving a deferred slot it is at least the address counter; an   *)
(* org does not change it.                                                    *)
HighWaterMarkFollowsWrites ==
    [][/\ largest_address' >= largest_address
       /\ (/\ phase = "pass1"
           /\ address_counter' > address_counter
           /\ ~IsOrg(exprs'[Len(exprs')]))
             => largest_address' >= address_counter'
       /\ (phase = "pass1" /\ Len(exprs') > Len(exprs) /\ IsOrg(exprs'[Len(exprs')]))
             => largest_address' = largest_address]_vars

\* after an org to 0x200, a deferred slot was reserved and the mark followed
HighWaterMarkRaised ==
    /\ phase = "pass1"
    /\ Len(exprs) >= 2
    /\ exprs[1] = <<Directive("org"), NumericLiteral(512)>>
    /\ incomplete_queue # <<>>
    /\ ~IsOrg(LastExpr)
    /\ largest_address = address_counter
    /\ address_counter > 512

----------------------------------------------------------------------------
\* the width of the immediate field of instruction e: 2^12, 2^8 or 2^4, and 0
\* when e has no immediate operand
FieldWidth(e) ==
    LET m == e[1].name
    IN  CASE Len(e) = 2 /\ m \in {"JP", "JR", "CALL"}
                /\ e[2].kind = "NumericLiteral" -> 4096
          [] Len(e) = 3 /\ m = "LD" /\ e[2] = Register("I")
                /\ e[3].kind = "NumericLiteral" -> 4096
          [] Len(e) = 3 /\ m \in {"SE", "SNE", "LD", "ADD", "RND"} /\ IsV(e[2])
                /\ e[3].kind = "NumericLiteral" -> 256
          [] Len(e) = 4 /\ m = "DRW" /\ IsV(e[2]) /\ IsV(e[3])
                /\ e[4].kind = "NumericLiteral" -> 16
          [] OTHER -> 0

\* e with its immediate reduced modulo the width of its field
Reduced(e) ==
    [e EXCEPT ![Len(e)] = NumericLiteral(@.value % FieldWidth(e))]

(* C14: an instruction with an immediate operand of any value leaves the same *)
(* bytes as the instruction with the operand reduced modulo its field width   *)
(* (2^12 for JP, JR, CALL and LD I; 2^8 for SE, SNE, LD, ADD and RND Vx, nn;  *)
(* 2^4 for DRW): the other nibbles of the opcode do not depend on the excess. *)
ImmediateFieldIsolation ==
    (Len(exprs) = 1 /\ IsInstr(exprs[1]) /\ FieldWidth(exprs[1]) > 0) =>
        LET r == first_pass(new, <<Reduced(exprs[1])>>)
        IN  /\ opcodes = r.opcodes
            /\ (panic = "") = (r.panic = "")

\* the operand shapes of LD and ADD that are rows of the opcode table
OverloadedShapeInTable(e) ==
    LET m == e[1].name
    IN  /\ Len(e) = 3
        /\ \/ IsV(e[2]) /\ e[3].kind = "NumericLiteral"
           \/ IsV(e[2]) /\ IsV(e[3])
           \/ m = "ADD" /\ IsReg(e[2], "I") /\ IsV(e[3])
           \/ m = "LD" /\ IsReg(e[2], "I") /\ e[3].kind \in {"NumericLiteral", "LabelOperand"}
           \/ m = "LD" /\ IsV(e[2]) /\ e[3] \in {Register("DT"), Register("K"), Register("[I]")}
           \/ m = "LD" /\ IsV(e[3])
                /\ e[2] \in {Register("DT"), Register("ST"), Register("F"),
                             Register("B"), Register("[I]")}

(* C15: a single LD or ADD that the validator accepts and whose operand shape *)
(* is no row of the opcode table makes generate fail: nothing is written and  *)
(* generate does not go on.                                                   *)
InvalidEncodingRejected ==
    (/\ Len(exprs) = 1
     /\ IsInstr(exprs[1])
     /\ exprs[1][1].name \in {"LD", "ADD"}
     /\ check(exprs[1]) = "Ok"
     /\ ~OverloadedShapeInTable(exprs[1]))
        => phase = "panicked" /\ opcodes = <<>>

(* C16: a pass-1 step that takes SYS nnn either fails or writes the opcode    *)
(* 0nnn at the address counter and advances the counter by 2.                 *)
SysEncodedOrRejected ==
    [][(/\ phase = "pass1"
        /\ Len(exprs') = Len(exprs) + 1
        /\ exprs'[Len(exprs')][1] = Instruction("SYS")
        /\ Len(exprs'[Len(exprs')]) = 2)
       => \/ phase' = "panicked"
          \/ /\ address_counter' = address_counter + 2
             /\ ReadByte(opcodes', address_counter)
                   = (exprs'[Len(exprs')][2].value \div 256) % 16
             /\ ReadByte(opcodes', address_counter + 1)
                   = exprs'[Len(exprs')][2].value % 256]_vars

----------------------------------------------------------------------------
\* the mnemonics of the validator table of the specification, section 4.3
TableMnemonics ==
    {"CLS", "RET", "JP", "JR", "CALL", "SE", "SNE", "LD", "OR", "AND", "XOR",
     "SUB", "SUBN", "SHL", "SHR", "ADD", "RND", "DRW", "SKP", "SKNP"}

\* the kinds of the operands of e
OperandKinds(e) == [k \in 1..(Len(e) - 1) |-> e[k + 1].kind]

\* the operand patterns the table gives for the mnemonic of e
ValidatorTable(e) ==
    LET m == e[1].name
        R == "Register"
        N == "NumericLiteral"
        A == "LabelOperand"
    IN  CASE m \in {"CLS", "RET"} -> OperandKinds(e) = <<>>
          [] m \in {"JP", "JR", "CALL"} -> OperandKinds(e) \in {<<N>>, <<A>>}
          [] m \in {"SE", "SNE", "LD"} -> OperandKinds(e) \in {<<R, N>>, <<R, R>>}
          [] m \in {"OR", "AND", "XOR", "SUB", "SUBN", "SHL", "SHR"} ->
                OperandKinds(e) = <<R, R>>
          [] m = "ADD" -> OperandKinds(e) \in {<<R, R>>, <<R, N>>}
          [] m = "RND" -> OperandKinds(e) = <<R, N>>
          [] m = "DRW" -> OperandKinds(e) = <<R, R, N>>
          [] m \in {"SKP", "SKNP"} -> OperandKinds(e) = <<R>>

----------------------------------------------------------------------------
\* the tokens parse took into the expressions it returned
Consumed == SubSeq(tokens, 1, Len(tokens) - Len(parsed.rest))

\* a token that can be an operand
IsOperand(t) == t.kind \in {"Register", "NumericLiteral", "LabelOperand"}

(* C18: parse returns Ok only when every token of the stream was taken into   *)
(* an expression: no token is left over that begins no expression or that     *)
(* follows a complete one, and every comma stands between two operands.       *)
ParseRejectsLeftovers ==
    (phase # "lexed" /\ parsed.status = "Ok") =>
        /\ parsed.rest = <<>>
        /\ \A i \in DOMAIN tokens :
              tokens[i] = Comma =>
                  /\ i > 1 /\ IsOperand(tokens[i - 1])
                  /\ i < Len(tokens) /\ IsOperand(tokens[i + 1])

(* C19: the tokens DRW, Register, Comma, Register, Comma, NumericLiteral      *)
(* parse to the one expression [DRW, Register, Register, NumericLiteral];     *)
(* org $200 / DRW V0, V1, $F assembles to the bytes D0 1F; and an instruction *)
(* of any other mnemonic is given at most two operands.                       *)
DrawTakesThreeOperands ==
    phase # "lexed" =>
        /\ \A x \in {"V0", "V1"}, y \in {"V0", "V1"} :
              tokens = <<Instruction("DRW"), Register(x), Comma, Register(y), Comma,
                         NumericLiteral(15)>>
                => /\ parsed.status = "Ok"
                   /\ parsed.exprs = << <<Instruction("DRW"), Register(x), Register(y),
                                          NumericLiteral(15)>> >>
        /\ (/\ tokens = <<Directive("org"), NumericLiteral(512), Instruction("DRW"),
                          Register("V0"), Comma, Register("V1"), Comma,
                          NumericLiteral(15)>>
            /\ phase # "parsed")
                => phase = "returned" /\ output = <<208, 31>>
        /\ \A i \in DOMAIN parsed.exprs :
              (IsInstr(parsed.exprs[i]) /\ parsed.exprs[i][1].name # "DRW")
                => Len(parsed.exprs[i]) <= 3

\* the tokens of the expressions of es, in order
RECURSIVE Flatten(_)
Flatten(es) == IF es = <<>> THEN <<>> ELSE Head(es) \o Flatten(Tail(es))

\* ts without its commas
WithoutCommas(ts) == SelectSeq(ts, LAMBDA t : t # Comma)

(* C20: no expression parse returns holds a Comma; each is a Label alone, a   *)
(* Directive followed by numerics, or an Instruction followed by Register,    *)
(* NumericLiteral and LabelOperand tokens only; and the tokens of the         *)
(* expressions are, in order, the tokens parse took, less the commas.         *)
ParsedWithoutCommas ==
    (phase # "lexed" /\ parsed.status = "Ok") =>
        /\ \A i \in DOMAIN parsed.exprs :
              LET e == parsed.exprs[i]
              IN  /\ \A k \in DOMAIN e : e[k] # Comma
                  /\ \/ Len(e) = 1 /\ e[1].kind = "Label"
                     \/ /\ e[1].kind = "Directive"
                        /\ Len(e) >= 2
                        /\ \A k \in 2..Len(e) : e[k].kind = "NumericLiteral"
                     \/ /\ e[1].kind = "Instruction"
                        /\ \A k \in 2..Len(e) : IsOperand(e[k])
        /\ Flatten(parsed.exprs) = WithoutCommas(Consumed)

\* parse took a comma between two operands and returned several expressions
CommaDropped ==
    /\ phase = "parsed"
    /\ parsed.status = "Ok"
    /\ Len(parsed.exprs) >= 2
    /\ \E i \in 2..(Len(Consumed) - 1) :
          /\ Consumed[i] = Comma
          /\ IsOperand(Consumed[i - 1])
          /\ IsOperand(Consumed[i + 1])

----------------------------------------------------------------------------
(* The second pass and the buffer *)

\* es without its i-th element
Without(es, i) == SubSeq(es, 1, i - 1) \o SubSeq(es, i + 1, Len(es))

\* positions of an org directive that is followed at once by the same directive
RepeatedOrgs ==
    {i \in 1..(Len(exprs) - 1) : IsOrg(exprs[i]) /\ exprs[i + 1] = exprs[i]}

(* C24: a program holding the same org directive twice in a row leaves the    *)
(* generator, throughout the first pass, with the address counter, high-water *)
(* mark, symbol table, buffer and queue the program with that directive once  *)
(* leaves it with, and generate ends the same way with the same image.        *)
OrgIdempotent ==
    \A i \in RepeatedOrgs :
        LET es == Without(exprs, i)
            p1 == first_pass(new, es)
        IN  /\ phase = "pass1" => Self = p1
            /\ phase = "returned"
                => generate(es) = [status |-> "returned", output |-> output]
            /\ phase = "panicked" => generate(es).status = "panicked"

\* a program with a repeated org to a non-zero address has returned an image
OrgRepeated ==
    /\ phase = "returned"
    /\ output # <<>>
    /\ \E i \in RepeatedOrgs : exprs[i][2].value > 0 /\ i + 1 < Len(exprs)

\* the first byte of the opcode of the jump instruction e, less its address bits
JumpFirst(e) ==
    CASE e[1].name = "JP" -> 16
      [] e[1].name = "JR" -> 176
      [] e[1].name = "CALL" -> 32

\* buffers b and c hold the same bytes everywhere outside the set of addresses S
SameOutside(b, c, S) ==
    \A a \in ((DOMAIN b) \cup (DOMAIN c)) \ S : ReadByte(b, a) = ReadByte(c, a)

(* C25: a step of pass 2 takes the oldest record of the queue, leaves the     *)
(* high-water mark and the symbol table as they are and changes no buffer     *)
(* byte other than the two at the record's address and address + 1; when the  *)
(* record's label is bound and the step completes, the record leaves the      *)
(* queue, its opcode stands at its recorded address and the counter stands 2  *)
(* past it.                                                                   *)
PassTwoFrame ==
    [][phase = "pass2" =>
        /\ largest_address' = largest_address
        /\ labels' = labels
        /\ incomplete_queue = <<>> => opcodes' = opcodes
        /\ incomplete_queue # <<>> =>
              LET item == Head(incomplete_queue)
                  n == LabelOperandOf(item.expr)
              IN  /\ SameOutside(opcodes, opcodes', {item.address, item.address + 1})
                  /\ (n \in DOMAIN labels /\ phase' = "pass2") =>
                        /\ incomplete_queue' = Tail(incomplete_queue)
                        /\ address_counter' = item.address + 2
                        /\ ReadByte(opcodes', item.address)
                             = BitOr(JumpFirst(item.expr), (labels[n] \div 256) % 16)
                        /\ ReadByte(opcodes', item.address + 1) = labels[n] % 256]_vars

\* pass 2 has emitted two records in turn, away from where pass 1 left the
\* counter, into a buffer that holds other bytes as well
PassTwoEmitted ==
    /\ phase = "pass2"
    /\ incomplete_queue = <<>>
    /\ Cardinality({i \in DOMAIN exprs : \E p \in ForwardRefs : p[1] = i}) = 2
    /\ address_counter < largest_address
    /\ Cardinality(DOMAIN opcodes) > 4

\* the instruction e has a label operand
HasLabelOperand(e) == IsInstr(e) /\ \E k \in 2..Len(e) : e[k].kind = "LabelOperand"

(* C26: a pass-1 step on an instruction with a label operand, taken with room *)
(* for two bytes at the counter, queues the instruction exactly when its      *)
(* label is not yet in the symbol table; a queued record holds the counter    *)
(* and the expression, the counter moves on by 2 with the high-water mark     *)
(* raised to it and the buffer is unchanged; with the label bound the opcode  *)
(* is written at once and the queue is unchanged.                             *)
DeferredIffUnbound ==
    [][(/\ phase = "pass1"
        /\ Len(exprs') = Len(exprs) + 1
        /\ HasLabelOperand(exprs'[Len(exprs')])
        /\ address_counter + 1 < BufferSize)
       => LET e == exprs'[Len(exprs')]
              n == LabelOperandOf(e)
          IN  IF n \notin DOMAIN labels
              THEN /\ incomplete_queue'
                        = Append(incomplete_queue,
                                 IncompleteInstruction(address_counter, e))
                   /\ address_counter' = address_counter + 2
                   /\ largest_address'
                        = IF address_counter + 2 > largest_address
                          THEN address_counter + 2 ELSE largest_address
                   /\ opcodes' = opcodes
              ELSE /\ incomplete_queue' = incomplete_queue
                   /\ address_counter' = address_counter + 2
                   /\ address_counter \in DOMAIN opcodes'
                   /\ phase' = "pass1"]_vars

\* the address counter when pass 1 reaches position i of the program taken
AddressAt(i) == first_pass(new, SubSeq(exprs, 1, i - 1)).address_counter

\* position i holds a JP, JR or CALL whose label no earlier position declares
DeferredJump(i) ==
    /\ HasLabelOperand(exprs[i])
    /\ exprs[i][1].name \in {"JP", "JR", "CALL"}
    /\ \A k \in 1..(i - 1) : ~IsLabelDecl(exprs[k], LabelOperandOf(exprs[i]))

\* no expression after position i is given the two bytes of position i's slot
SlotKept(i) ==
    \A k \in (i + 1)..Len(exprs) :
        \A x \in AddressAt(k)..(AddressAt(k + 1) - 1) :
            x \notin {AddressAt(i), AddressAt(i) + 1}

(* C27: when generate has returned, the buffer holds, at the recorded address *)
(* of every deferred JP, JR or CALL whose slot nothing later in the program   *)
(* is given (no org leads back over it), the first byte of                    *)
(* the instruction with bits 11..8 of the label's address and then bits 7..0  *)
(* of it, as the same instruction with the label bound beforehand gives; and  *)
(* the expression after it was processed at the recorded address plus 2.      *)
DeferredJumpResolved ==
    phase = "returned" =>
        \A i \in DOMAIN exprs :
            (DeferredJump(i) /\ SlotKept(i)) =>
                LET a == labels[LabelOperandOf(exprs[i])]
                    at == AddressAt(i)
                    bound == process_expression(
                                 [new EXCEPT !.labels = labels, !.address_counter = at],
                                 exprs[i])
                IN  /\ ReadByte(opcodes, at) = BitOr(JumpFirst(exprs[i]), (a \div 256) % 16)
                    /\ ReadByte(opcodes, at + 1) = a % 256
                    /\ ReadByte(opcodes, at) = ReadByte(bound.opcodes, at)
                    /\ ReadByte(opcodes, at + 1) = ReadByte(bound.opcodes, at + 1)
                    /\ i < Len(exprs) =>
                          /\ AddressAt(i + 1) = at + 2
                          /\ (exprs[i + 1] = <<Instruction("CLS")>> /\ NoOrgAfter(i)) =>
                                /\ ReadByte(opcodes, at + 2) = 0
                                /\ ReadByte(opcodes, at + 3) = 224

\* a deferred jump to an address above 0xFF, followed by an instruction, was
\* resolved and the image returned
DeferredJumpReturned ==
    /\ phase = "returned"
    /\ \E i \in 1..(Len(exprs) - 1) :
          /\ DeferredJump(i) /\ NoOrgAfter(i)
          /\ labels[LabelOperandOf(exprs[i])] > 255
          /\ exprs[i + 1] = <<Instruction("CLS")>>

\* every label an instruction of the program names is declared in the program
AllReferencedDeclared ==
    \A i \in DOMAIN exprs :
        HasLabelOperand(exprs[i]) =>
            \E k \in DOMAIN exprs : IsLabelDecl(exprs[k], LabelOperandOf(exprs[i]))

(* C28: in a program that declares every label it names, each step of pass 2  *)
(* takes one record off the queue for good, so that the queue is one shorter  *)
(* after it, and generate goes on to the next record or to its return.        *)
PassTwoShrinks ==
    [][(phase = "pass2" /\ incomplete_queue # <<>> /\ AllReferencedDeclared)
       => /\ incomplete_queue' = Tail(incomplete_queue)
          /\ phase' = "pass2"]_vars

(* C29: generate never indexes the opcode buffer at 4096 or above and never   *)
(* drains it past its end.                                                    *)
BufferSafety ==
    panic \notin {"index out of bounds: the len is 4096", "drain: end out of range"}

\* the register names lex_registers has a tag for
LexedRegisterNames == {from_utf8(RegisterTags[k]) : k \in DOMAIN RegisterTags}

(* C30: a single instruction of a mnemonic of the validator table that the    *)
(* validator accepts, with any of the 20 lexed register names in its register *)
(* positions, is processed by the generator without a panic.                  *)
ValidatedNeverPanics ==
    (/\ Len(exprs) = 1
     /\ IsInstr(exprs[1])
     /\ exprs[1][1].name \in TableMnemonics
     /\ check(exprs[1]) = "Ok"
     /\ \A k \in 2..Len(exprs[1]) :
           exprs[1][k].kind = "Register" => exprs[1][k].name \in LexedRegisterNames)
        => panic = ""

----------------------------------------------------------------------------
(* The lexer and the driver *)

(* C21: tokenize returns Ok only for a source it has lexed to its end: when   *)
(* lex_lines stops at a line that no form of the line grammar matches, the    *)
(* result is a LexerError, not the tokens of the lines before it.             *)
UnlexedLineRejected ==
    (phase = "tokenized" /\ lexed.status = "Ok") => lexed.rest = <<>>

(* C22: the line " org $200" lexes to Directive(org) and its operand, the     *)
(* line " db 1" to Directive(db) and its operand, and the line " LD V0, r"    *)
(* to LD, V0, Comma, Register(r) for each register name r of V0..VF, DT, ST,  *)
(* F, [I], I, B, K.                                                           *)
KeywordsLexed ==
    phase = "tokenized" =>
        /\ source = <<" ", "o", "r", "g", " ", "$", "2", "0", "0", "\n">>
              => lexed.tokens = <<Directive("org"), NumericLiteral(512)>>
        /\ source = <<" ", "d", "b", " ", "1", "\n">>
              => lexed.tokens = <<Directive("db"), NumericLiteral(1)>>
        /\ \A r \in RegisterNameBytes :
              source = <<" ", "L", "D", " ", "V", "0", ",", " ">> \o r \o <<"\n">>
                  => lexed.tokens = <<Instruction("LD"), Register("V0"), Comma,
                                      Register(from_utf8(r))>>

(* C23: when assemble returns for a source that was lexed and parsed to its   *)
(* end, with every expression accepted by the validator, and generate returns *)
(* an image for the expressions, assemble has returned that image.            *)
AssembleReturnsImage ==
    (/\ phase = "assembled"
     /\ lexed.rest = <<>>
     /\ parsed.rest = <<>>
     /\ \A i \in DOMAIN exprs : check(exprs[i]) = "Ok"
     /\ generate(exprs).status = "returned")
        => output = generate(exprs).output

====
